---- MODULE Spec2Model ----
(***************************************************************************)
(* Model of the traffic backend: the vehicle-group simulation of           *)
(* speedPrediction.js (src/unnamed/part_001) and the WebSocket / REST      *)
(* server of backend/src/index.js.                                        *)
(*                                                                         *)
(* Units.  Distances are kept in 1/3600 km, so that a group moving at      *)
(* `speed` km/h for one second advances by exactly `speed` units and       *)
(* DISTANCE_TO_TRAVEL (1.5 km) is 5400 units.  Snapshot fields produced    *)
(* by toFixed are kept in the unit of their last digit: distanceTraveled   *)
(* in thousandths of a km, timeElapsed and estimatedTimeToReach in tenths  *)
(* of a second.  Timestamps (new Date()) are not modelled.                 *)
(***************************************************************************)
EXTENDS Integers, Sequences, FiniteSets, TLC

(***************************************************************************)
(* Bounds of the model.                                                    *)
(***************************************************************************)
\* connection slots 1..MaxConns; each slot is opened at most once
MaxConns == 2
\* events of a run: the client events (socket events, REST requests) that
\* change the server's state, and the ends of its one-second rounds
MaxEvents == 4

(***************************************************************************)
(* Program constants of speedPrediction.js.                                *)
(***************************************************************************)
Directions == {"North", "South", "East", "West"}

\* DISTANCE_TO_TRAVEL = 1.5 km, in units of 1/3600 km
DISTANCE_TO_TRAVEL == 5400

INITIAL_SPEEDS == [d \in Directions |->
    CASE d = "North" -> 60 [] d = "South" -> 60 [] d = "East" -> 50 [] d = "West" -> 50]

DEFAULT_DENSITIES == [d \in Directions |->
    CASE d = "North" -> 20 [] d = "South" -> 20 [] d = "East" -> 15 [] d = "West" -> 15]

\* DIRECTION_FACTORS, in hundredths
DIRECTION_FACTORS == [d \in Directions |->
    CASE d = "North" -> 100 [] d = "South" -> 90 [] d = "East" -> 110 [] d = "West" -> 95]

\* Names every object inherits from Object.prototype: DENSITIES[name] and
\* trafficData[name] are defined (and truthy) for them although they are no
\* direction.
ObjectPrototypeKeys == {"constructor"}

Max(a, b) == IF a >= b THEN a ELSE b
Min(a, b) == IF a <= b THEN a ELSE b

(***************************************************************************)
(* getTimeFactor, in tenths; `hour` is moment().hour().                    *)
(***************************************************************************)
getTimeFactor(currentHour) ==
    IF currentHour >= 7 /\ currentHour <= 9 THEN 7
    ELSE IF currentHour >= 16 /\ currentHour <= 18 THEN 6
    ELSE IF currentHour >= 22 \/ currentHour <= 5 THEN 9
    ELSE 8

(***************************************************************************)
(* Values a JSON body can carry for `density`, and Number(v) || 0.         *)
(* kind "num" is a JSON number; kind "str" is a string, which either       *)
(* spells a number (numeric, val is that number) or does not; kind "none"  *)
(* is a missing field (undefined).                                         *)
(***************************************************************************)
JsonNum(n) == [kind |-> "num", numeric |-> TRUE, val |-> n]
JsonStr(n) == [kind |-> "str", numeric |-> TRUE, val |-> n]
JsonText == [kind |-> "str", numeric |-> FALSE, val |-> 0]
JsonMissing == [kind |-> "none", numeric |-> FALSE, val |-> 0]

\* Number(v): a number converts to itself, a string to the number it spells;
\* anything else here gives NaN
ToNumber(v) ==
    IF v.kind = "num" THEN [nan |-> FALSE, val |-> v.val]
    ELSE IF v.kind = "str" /\ v.numeric THEN [nan |-> FALSE, val |-> v.val]
    ELSE [nan |-> TRUE, val |-> 0]

\* Number(densityValue) || 0: NaN and 0 are falsy
NumberOrZero(v) == IF ToNumber(v).nan THEN 0 ELSE ToNumber(v).val

(***************************************************************************)
(* VehicleGroup                                                            *)
(***************************************************************************)
NewVehicleGroup(direction, isSecondGroup) ==
    [direction        |-> direction,
     isSecondGroup    |-> isSecondGroup,
     distanceTraveled |-> 0,
     hasReached       |-> FALSE,
     speed            |-> IF isSecondGroup THEN INITIAL_SPEEDS[direction] \div 2
                          ELSE INITIAL_SPEEDS[direction],
     timeElapsed      |-> 0,
     maxSpeed         |-> INITIAL_SPEEDS[direction],
     volume           |-> 0]

\* Math.round(x) for x = num / den >= 0
RoundDiv(num, den) == (2 * num + den) \div (2 * den)

\* Math.ceil(x) for x = num / den >= 0
CeilDiv(num, den) == (num + den - 1) \div den

\* getRandomVariation(baseSpeed), baseSpeed = num / den, as a fraction over den
getRandomVariationUnclamped(num, den, variation) == num + variation * den

getRandomVariation(num, den, variation) == Max(0, num + variation * den)

\* The density DENSITIES[direction] || 0 read by updateSpeed and getStatus
DensityOf(densities, direction) ==
    IF direction \in DOMAIN densities THEN densities[direction] ELSE 0

\* VehicleGroup.updateSpeed: the new speed of group g
updateSpeed(g, densities, currentHour, variation) ==
    LET timeFactor == getTimeFactor(currentHour)
        directionFactor == DIRECTION_FACTORS[g.direction]
        density == Max(0, DensityOf(densities, g.direction))
        \* Math.max(0.4, 1 - density / 50), in fiftieths
        densityAdjustment == Max(20, 50 - density)
        \* 1 - Math.min(0.4, vol / 100), in hundredths
        volAdjustment == 100 - Min(40, g.volume)
        halve == g.isSecondGroup /\ ~g.hasReached
        num == g.maxSpeed * timeFactor * directionFactor
                 * densityAdjustment * volAdjustment
        den == 10 * 100 * 50 * 100 * (IF halve THEN 2 ELSE 1)
        speed == Min(RoundDiv(getRandomVariation(num, den, variation), den), g.maxSpeed)
    IN  IF g.hasReached /\ g.isSecondGroup
        THEN Min(speed * 2, g.maxSpeed)
        ELSE speed

\* VehicleGroup.update(deltaTime)
GroupUpdateChecksBeforeMoving(g, deltaTime, densities, currentHour, variation) ==
    IF g.hasReached /\ ~g.isSecondGroup THEN g
    ELSE LET speed == updateSpeed(g, densities, currentHour, variation)
             dist == g.distanceTraveled + speed * deltaTime
         IN  [g EXCEPT !.speed = speed,
                       !.timeElapsed = g.timeElapsed + deltaTime,
                       !.distanceTraveled = dist,
                       !.hasReached = g.hasReached
                                        \/ g.distanceTraveled >= DISTANCE_TO_TRAVEL]

GroupUpdate(g, deltaTime, densities, currentHour, variation) ==
    IF g.hasReached /\ ~g.isSecondGroup THEN g
    ELSE LET speed == updateSpeed(g, densities, currentHour, variation)
             dist == g.distanceTraveled + speed * deltaTime
         IN  [g EXCEPT !.speed = speed,
                       !.timeElapsed = g.timeElapsed + deltaTime,
                       !.distanceTraveled = dist,
                       !.hasReached = g.hasReached \/ dist >= DISTANCE_TO_TRAVEL]

\* VehicleGroup.getStatus
GroupStatus(g) ==
    [direction        |-> g.direction,
     currentSpeed     |-> g.speed,
     volume           |-> g.volume,
     \* Number(distanceTraveled.toFixed(3)): thousandths of a km
     distanceTraveled |-> RoundDiv(g.distanceTraveled * 1000, 3600),
     \* Number(timeElapsed.toFixed(1)): tenths of a second
     timeElapsed      |-> g.timeElapsed * 10,
     hasReached       |-> g.hasReached,
     \* division by a speed of 0 gives Infinity
     estimatedTimeToReach |->
        IF g.hasReached THEN [finite |-> TRUE, tenths |-> g.timeElapsed * 10]
        ELSE IF g.speed = 0 THEN [finite |-> FALSE, tenths |-> 0]
        ELSE [finite |-> TRUE,
              tenths |-> RoundDiv((DISTANCE_TO_TRAVEL - g.distanceTraveled) * 10, g.speed)]]

(***************************************************************************)
(* TrafficSimulation: firstGroups, secondGroups and groupVolumes, one      *)
(* entry per direction.                                                    *)
(***************************************************************************)
\* the volumes _recalculateVolumes computes for one direction
VolumesOf(densities, direction) ==
    LET totalVehicles == Max(1, RoundDiv(DensityOf(densities, direction) * 3, 2))
        firstCount == CeilDiv(totalVehicles * 6, 10)
        secondCount == Max(0, totalVehicles - firstCount)
    IN  [total |-> totalVehicles, first |-> firstCount, second |-> secondCount]

\* TrafficSimulation._recalculateVolumes
recalculateVolumes(sim, densities) ==
    [firstGroups  |-> [d \in Directions |->
                         [sim.firstGroups[d] EXCEPT !.volume = VolumesOf(densities, d).first]],
     secondGroups |-> [d \in Directions |->
                         [sim.secondGroups[d] EXCEPT !.volume = VolumesOf(densities, d).second]],
     groupVolumes |-> [d \in Directions |-> VolumesOf(densities, d)]]

\* new TrafficSimulation()
NewTrafficSimulation(densities) ==
    recalculateVolumes(
        [firstGroups  |-> [d \in Directions |-> NewVehicleGroup(d, FALSE)],
         secondGroups |-> [d \in Directions |-> NewVehicleGroup(d, TRUE)],
         groupVolumes |-> [d \in Directions |-> [total |-> 0, first |-> 0, second |-> 0]]],
        densities)

\* TrafficSimulation.update(deltaTime); variation[<<d, isSecond>>] is the
\* random variation drawn by that group's updateSpeed
SimUpdate(sim, deltaTime, densities, currentHour, variation) ==
    LET s == recalculateVolumes(sim, densities)
    IN  [s EXCEPT
           !.firstGroups = [d \in Directions |->
               GroupUpdate(s.firstGroups[d], deltaTime, densities, currentHour,
                           variation[<<d, FALSE>>])],
           !.secondGroups = [d \in Directions |->
               GroupUpdate(s.secondGroups[d], deltaTime, densities, currentHour,
                           variation[<<d, TRUE>>])]]

\* TrafficSimulation.getStatus
SimStatus(sim, densities) ==
    [d \in Directions |->
        [firstGroup  |-> GroupStatus(sim.firstGroups[d]),
         secondGroup |-> GroupStatus(sim.secondGroups[d]),
         maxSpeed    |-> INITIAL_SPEEDS[d],
         density     |-> DensityOf(densities, d),
         volumes     |-> sim.groupVolumes[d]]]

\* getTrafficStatus: the simulation after simulation.update(1); the value
\* returned is SimStatus of it
getTrafficStatus(sim, densities, currentHour, variation) ==
    SimUpdate(sim, 1, densities, currentHour, variation)

\* setDensity: the DENSITIES object afterwards.  An inherited name passes
\* the `!== undefined` test and becomes an own property of DENSITIES.
setDensityAccepts(densities, direction) ==
    direction \in DOMAIN densities \/ direction \in ObjectPrototypeKeys

setDensityUnclamped(densities, direction, densityValue) ==
    IF setDensityAccepts(densities, direction)
    THEN [k \in DOMAIN densities \cup {direction} |->
             IF k = direction THEN NumberOrZero(densityValue) ELSE densities[k]]
    ELSE densities

setDensity(densities, direction, densityValue) ==
    IF setDensityAccepts(densities, direction)
    THEN [k \in DOMAIN densities \cup {direction} |->
             IF k = direction THEN Max(0, NumberOrZero(densityValue))
             ELSE densities[k]]
    ELSE densities

(***************************************************************************)
(* Inputs of the model.                                                    *)
(***************************************************************************)
Conns == 1 .. MaxConns

\* the draws Math.random() * 10 - 5 of a run, which lie in [-5, 5): every
\* group draws v at every update
VariationProfile(v) == [k \in Directions \X BOOLEAN |-> v]

\* message.userName of a connect event: each client has its own name
NameOf(c) == IF c % 2 = 1 THEN "ann" ELSE "bob"
Contents == {"hello"}
\* message.messageType; "" stands for an absent (falsy) field
MessageTypes == {"", "emergency"}
\* userId fields a client can send: the ids handed out so far (next is the
\* id the next connect event gets) and 0, which is never handed out
UserIdInputs(next) == 0 .. next - 1
\* latitude / longitude / accuracy of a location event; accuracy 0 is falsy
LocationInputs == {[latitude |-> 10, longitude |-> 20, accuracy |-> 5]}
\* :direction path parameters
DirectionInputs == {"North"} \cup ObjectPrototypeKeys \cup {"Up"}
\* density bodies
DensityInputs == {JsonNum(-3), JsonNum(40), JsonStr(40), JsonText, JsonMissing}
\* maxSpeed bodies
MaxSpeedInputs == {80}
\* prompts of the assistant: none, or one that asks about density
PromptInputs == {"", "density"}

(***************************************************************************)
(* State of the server process.                                            *)
(***************************************************************************)
VARIABLES
    simulation,      \* the TrafficSimulation instance of speedPrediction.js
    DENSITIES,       \* the DENSITIES object of speedPrediction.js
    hour,            \* the hour of day moment() reports
    random,          \* the variations Math.random() yields, per group
    trafficData,     \* index.js: let trafficData
    users,           \* index.js: const users = new Map(), userId -> entry
    messages,        \* index.js: const messages = []
    connState,       \* per connection: "none", "open", "closing", "closed"
    assignedId,      \* per connection: let assignedId (0 is null)
    interval,        \* per connection: is its setInterval timer armed
    nextUserId,      \* the next id generateId() hands to a connect event
    events,          \* client events served so far
    clock,           \* one-second rounds completed
    fired,           \* the timers that have fired in the current round
    stepsThisSecond, \* simulation.update calls made in the current round
    sent,            \* per connection: the frames the last step sent to it
    response,        \* the HTTP response of the last step (kind "none" if none)
    lastEvent        \* the handler the last step ran

vars == <<simulation, DENSITIES, hour, random, trafficData, users, messages, connState,
          assignedId, interval, nextUserId, events, clock, fired,
          stepsThisSecond, sent, response, lastEvent>>

NoLocation == [known |-> FALSE, latitude |-> 0, longitude |-> 0, accuracy |-> 0]
NoSent == [c \in Conns |-> << >>]
NoResponse == [kind |-> "none"]
Event(type, conn, userId) == [type |-> type, conn |-> conn, userId |-> userId]

\* the frames that reached the peer: ws.send on a socket that is not open
\* throws or is dropped, and the handlers ignore that
Delivered(c) == IF connState[c] = "open" THEN sent[c] ELSE << >>

(***************************************************************************)
(* Broadcast helpers of index.js.  A Map iterates in insertion order,      *)
(* which is the order of the ids handed out.                               *)
(***************************************************************************)
MinOf(S) == CHOOSE x \in S : \A y \in S : x <= y

RECURSIVE SendToAll(_, _, _, _)
\* users.forEach(({ ws }) => ws.send(msg)) over the entries `ids` of `us`
SendToAll(log, us, ids, msg) ==
    IF ids = {} THEN log
    ELSE LET id == MinOf(ids)
         IN  SendToAll([log EXCEPT ![us[id].ws] = Append(@, msg)], us, ids \ {id}, msg)

RECURSIVE EntriesOf(_, _)
\* Array.from(users.entries()) restricted to `ids`
EntriesOf(us, ids) ==
    IF ids = {} THEN << >>
    ELSE LET id == MinOf(ids)
         IN  <<[userId |-> id, userName |-> us[id].userName,
                location |-> us[id].location]>> \o EntriesOf(us, ids \ {id})

broadcastUserList(log, us) ==
    LET all == EntriesOf(us, DOMAIN us)
        list == [i \in 1 .. Len(all) |->
                    [userId |-> all[i].userId, userName |-> all[i].userName]]
    IN  SendToAll(log, us, DOMAIN us, [type |-> "userList", users |-> list])

broadcastLocations(log, us) ==
    SendToAll(log, us, DOMAIN us,
              [type |-> "locations", locations |-> EntriesOf(us, DOMAIN us)])

\* the history entries a connected confirmation carries: messages.slice(-50)
RecentMessagesUnsliced(msgs) == msgs

RecentMessages(msgs) ==
    IF Len(msgs) <= 50 THEN msgs ELSE SubSeq(msgs, Len(msgs) - 49, Len(msgs))

(***************************************************************************)
(* Initial state: the module-level statements of speedPrediction.js and    *)
(* index.js.  Besides the freshly constructed simulation, a simulation     *)
(* that has already run (timeElapsed seconds, the first and second groups  *)
(* at the given distances) stands for a server that has been up for a      *)
(* while; both then take the update of `let trafficData =                  *)
(* getTrafficStatus()`.  A start fixes the hour of day and the random      *)
(* variation of the run.  The server that has been up for a while also     *)
(* holds `history` messages, pushed for users who have left since (their   *)
(* ids are written as negative numbers).                                   *)
(***************************************************************************)
StartProgress ==
    {[hour |-> 12, variation |-> -5, timeElapsed |-> 0, first |-> 0, second |-> 0,
      history |-> 0],
     [hour |-> 17, variation |-> 4, timeElapsed |-> 400, first |-> 5350, second |-> 5385,
      history |-> 50]}

\* the history after n messages.push of users who have left
PastMessages(n) ==
    [i \in 1 .. n |->
        [id |-> i, userId |-> -1, userName |-> "zed", content |-> "hello",
         type |-> IF i % 2 = 0 THEN "emergency" ELSE "normal"]]

StartSimulation(p) ==
    LET fresh == NewTrafficSimulation(DEFAULT_DENSITIES)
        at(g, dist) == [g EXCEPT !.distanceTraveled = dist,
                                 !.timeElapsed = p.timeElapsed,
                                 !.hasReached = dist >= DISTANCE_TO_TRAVEL]
    IN  [fresh EXCEPT
           !.firstGroups = [d \in Directions |-> at(fresh.firstGroups[d], p.first)],
           !.secondGroups = [d \in Directions |-> at(fresh.secondGroups[d], p.second)]]

Init ==
    /\ DENSITIES = DEFAULT_DENSITIES
    /\ \E p \in StartProgress :
          /\ hour = p.hour
          /\ random = VariationProfile(p.variation)
          /\ simulation = getTrafficStatus(StartSimulation(p), DENSITIES, hour, random)
          /\ messages = PastMessages(p.history)
    /\ trafficData = SimStatus(simulation, DENSITIES)
    /\ users = << >>
    /\ connState = [c \in Conns |-> "none"]
    /\ assignedId = [c \in Conns |-> 0]
    /\ interval = [c \in Conns |-> FALSE]
    /\ nextUserId = 1
    /\ events = 0
    /\ clock = 0
    /\ fired = {}
    /\ stepsThisSecond = 0
    /\ sent = NoSent
    /\ response = NoResponse
    /\ lastEvent = Event("init", 0, 0)

\* what a handler leaves alone
SimUnchanged == UNCHANGED <<simulation, DENSITIES, hour, random, stepsThisSecond>>
TimersUnchanged == UNCHANGED <<interval, clock, fired>>
ConnsUnchanged == UNCHANGED <<connState, assignedId>>

\* an event that counts against MaxEvents, and one that does not
Counted == events < MaxEvents /\ events' = events + 1
Uncounted == UNCHANGED events

(***************************************************************************)
(* wss.on("connection"): a new socket; sends the held snapshot and arms    *)
(* the socket's own one-second timer.                                      *)
(***************************************************************************)
Connection(c) ==
    /\ connState[c] = "none"
    \* the sockets take the slots in the order they are accepted
    /\ \A b \in Conns : b < c => connState[b] # "none"
    /\ Counted
    /\ connState' = [connState EXCEPT ![c] = "open"]
    /\ assignedId' = [assignedId EXCEPT ![c] = 0]
    /\ interval' = [interval EXCEPT ![c] = TRUE]
    /\ sent' = [NoSent EXCEPT ![c] = <<[type |-> "trafficUpdate", data |-> trafficData]>>]
    /\ response' = NoResponse
    /\ lastEvent' = Event("connection", c, 0)
    /\ SimUnchanged
    /\ UNCHANGED <<trafficData, users, messages, nextUserId, clock, fired>>

(***************************************************************************)
(* The session registry `users` under the frames of ws.on("message").      *)
(***************************************************************************)
\* the registry after case "connect" stored the entry of a new id
ConnectUsers(us, userId, c, userName) ==
    [k \in DOMAIN us \cup {userId} |->
        IF k = userId THEN [ws |-> c, userName |-> userName, location |-> NoLocation]
        ELSE us[k]]

\* the registry after case "location" stored the location of a known user
LocationUsers(us, userId, loc) ==
    [us EXCEPT ![userId] = [@ EXCEPT !.location =
        [known |-> TRUE, latitude |-> loc.latitude, longitude |-> loc.longitude,
         accuracy |-> loc.accuracy]]]

\* a frame without location fields
NoLocationInput == [latitude |-> 0, longitude |-> 0, accuracy |-> 0]

\* the registry after the switch on message.type has handled a frame
SwitchUsersDropsLocation(type, us, userId, c, userName, loc) ==
    CASE type = "connect" -> ConnectUsers(us, userId, c, userName)
      [] type = "location" /\ userId \in DOMAIN us -> LocationUsers(us, userId, loc)
      [] type = "message" /\ userId \in DOMAIN us ->
            [us EXCEPT ![userId] = [@ EXCEPT !.location = NoLocation]]
      [] OTHER -> us

SwitchUsers(type, us, userId, c, userName, loc) ==
    CASE type = "connect" -> ConnectUsers(us, userId, c, userName)
      [] type = "location" /\ userId \in DOMAIN us -> LocationUsers(us, userId, loc)
      [] OTHER -> us

\* const sender = users.get(message.userId): found is `sender` being truthy
SenderOrGuest(us, userId) ==
    IF userId \in DOMAIN us
    THEN [found |-> TRUE, userName |-> us[userId].userName]
    ELSE [found |-> TRUE, userName |-> ""]

Sender(us, userId) ==
    IF userId \in DOMAIN us
    THEN [found |-> TRUE, userName |-> us[userId].userName]
    ELSE [found |-> FALSE, userName |-> ""]

(***************************************************************************)
(* ws.on("message"), one action per case of the switch.                    *)
(***************************************************************************)
\* JSON.parse throws: return
WsUnparsable(c) ==
    /\ connState[c] = "open"
    /\ Uncounted
    /\ sent' = NoSent
    /\ response' = NoResponse
    /\ lastEvent' = Event("unparsable", c, 0)
    /\ SimUnchanged /\ TimersUnchanged /\ ConnsUnchanged
    /\ UNCHANGED <<trafficData, users, messages, nextUserId>>

\* default: break
WsUnknownType(c) ==
    /\ connState[c] = "open"
    /\ Uncounted
    /\ sent' = NoSent
    /\ response' = NoResponse
    /\ lastEvent' = Event("unknown", c, 0)
    /\ users' = SwitchUsers("", users, 0, c, "", NoLocationInput)
    /\ SimUnchanged /\ TimersUnchanged /\ ConnsUnchanged
    /\ UNCHANGED <<trafficData, messages, nextUserId>>

\* case "connect"; generateId() is taken to return an id not handed out before
WsConnect(c, userName) ==
    /\ connState[c] = "open"
    /\ Counted
    /\ LET userId == nextUserId
           us == SwitchUsers("connect", users, userId, c, userName, NoLocationInput)
           confirm == [NoSent EXCEPT ![c] =
                         <<[type |-> "connected", userId |-> userId,
                            messages |-> RecentMessages(messages)]>>]
       IN  /\ users' = us
           /\ assignedId' = [assignedId EXCEPT ![c] = userId]
           /\ nextUserId' = nextUserId + 1
           /\ sent' = broadcastLocations(broadcastUserList(confirm, us), us)
           /\ lastEvent' = Event("connect", c, userId)
    /\ response' = NoResponse
    /\ SimUnchanged /\ TimersUnchanged
    /\ UNCHANGED <<trafficData, messages, connState>>

\* the registry entries case "message" sends the new message to
MessageRecipientsSkipsFirst(us) ==
    IF DOMAIN us = {} THEN {} ELSE DOMAIN us \ {MinOf(DOMAIN us)}

MessageRecipients(us) == DOMAIN us

\* case "message"
WsMessage(c, userId, content, messageType) ==
    /\ connState[c] = "open"
    /\ IF ~Sender(users, userId).found
       THEN /\ Uncounted
            /\ sent' = NoSent
            /\ UNCHANGED messages
       ELSE /\ Counted
            /\ LET newMessage ==
                     [id |-> Len(messages) + 1, userId |-> userId,
                      userName |-> Sender(users, userId).userName, content |-> content,
                      type |-> IF messageType = "" THEN "normal" ELSE messageType]
               IN  /\ messages' = Append(messages, newMessage)
                   /\ sent' = SendToAll(NoSent, users, MessageRecipients(users),
                                        [type |-> "newMessage", message |-> newMessage])
    /\ response' = NoResponse
    /\ lastEvent' = Event("message", c, userId)
    /\ users' = SwitchUsers("message", users, userId, c, "", NoLocationInput)
    /\ SimUnchanged /\ TimersUnchanged /\ ConnsUnchanged
    /\ UNCHANGED <<trafficData, nextUserId>>

\* the registry entries case "emergency" sends the alert to
EmergencyRecipients(us) == DOMAIN us

\* the history entry case "emergency" pushes
EmergencyMessageUntyped(msgs, us, userId) ==
    [id |-> Len(msgs) + 1, userId |-> userId, userName |-> Sender(us, userId).userName,
     content |-> "EMERGENCY ALERT: Traffic stopped for emergency vehicle",
     type |-> "normal"]

EmergencyMessage(msgs, us, userId) ==
    [id |-> Len(msgs) + 1, userId |-> userId, userName |-> Sender(us, userId).userName,
     content |-> "EMERGENCY ALERT: Traffic stopped for emergency vehicle",
     type |-> "emergency"]

\* case "emergency"
WsEmergency(c, userId) ==
    /\ connState[c] = "open"
    /\ IF ~Sender(users, userId).found
       THEN /\ Uncounted
            /\ sent' = NoSent
            /\ UNCHANGED <<messages, trafficData, simulation, stepsThisSecond>>
       ELSE /\ Counted
            /\ LET emergencyMessage == EmergencyMessage(messages, users, userId)
                   sim == getTrafficStatus(simulation, DENSITIES, hour, random)
                   data == SimStatus(sim, DENSITIES)
               IN  /\ messages' = Append(messages, emergencyMessage)
                   /\ simulation' = sim
                   /\ stepsThisSecond' = stepsThisSecond + 1
                   /\ trafficData' = data
                   /\ sent' = SendToAll(NoSent, users, EmergencyRecipients(users),
                                        [type |-> "emergency", message |-> emergencyMessage,
                                         trafficData |-> data])
    /\ response' = NoResponse
    /\ lastEvent' = Event("emergency", c, userId)
    /\ users' = SwitchUsers("emergency", users, userId, c, "", NoLocationInput)
    /\ TimersUnchanged /\ ConnsUnchanged
    /\ UNCHANGED <<DENSITIES, hour, random, nextUserId>>

\* case "location"
WsLocation(c, userId, loc) ==
    /\ connState[c] = "open"
    /\ users' = SwitchUsers("location", users, userId, c, "", loc)
    /\ IF ~Sender(users, userId).found
       THEN /\ Uncounted
            /\ sent' = NoSent
       ELSE /\ Counted
            /\ sent' = broadcastLocations(NoSent, users')
    /\ response' = NoResponse
    /\ lastEvent' = Event("location", c, userId)
    /\ SimUnchanged /\ TimersUnchanged /\ ConnsUnchanged
    /\ UNCHANGED <<trafficData, messages, nextUserId>>

(***************************************************************************)
(* ws.on("close") and the two ws.on("error") handlers.  The ws library     *)
(* emits "error" with the socket already leaving the open state and        *)
(* emits "close" afterwards.                                               *)
(***************************************************************************)
\* the registry after the close handler of a socket whose assignedId is id
CloseUsers(us, id) == [k \in DOMAIN us \ {id} |-> us[k]]

\* is the socket's timer still armed after its close handler has run
IntervalAfterClose(armed) == armed

Close(c) ==
    /\ connState[c] \in {"open", "closing"}
    /\ Counted
    /\ connState' = [connState EXCEPT ![c] = "closed"]
    /\ interval' = [interval EXCEPT ![c] = IntervalAfterClose(@)]
    /\ IF assignedId[c] # 0 /\ assignedId[c] \in DOMAIN users
       THEN LET us == CloseUsers(users, assignedId[c])
            IN  /\ users' = us
                /\ sent' = broadcastUserList(NoSent, us)
       ELSE /\ UNCHANGED users
            /\ sent' = NoSent
    /\ response' = NoResponse
    /\ lastEvent' = Event("close", c, assignedId[c])
    /\ SimUnchanged
    /\ UNCHANGED <<trafficData, messages, assignedId, nextUserId, clock, fired>>

\* is the socket's timer still armed after its error handlers have run
IntervalAfterError(armed) == FALSE

Error(c) ==
    /\ connState[c] = "open"
    /\ Counted
    /\ connState' = [connState EXCEPT ![c] = "closing"]
    /\ interval' = [interval EXCEPT ![c] = IntervalAfterError(@)]
    /\ sent' = NoSent
    /\ response' = NoResponse
    /\ lastEvent' = Event("error", c, 0)
    /\ SimUnchanged
    /\ UNCHANGED <<trafficData, users, messages, assignedId, nextUserId, clock, fired>>

(***************************************************************************)
(* The setInterval callback of connection c.  Every armed timer fires      *)
(* once in each one-second round; NextSecond starts the next round.        *)
(***************************************************************************)
\* the frames a timer callback sends to its own socket
TickFramesNone(data) == << >>

TickFrames(data) == <<[type |-> "trafficUpdate", data |-> data]>>

Tick(c) ==
    /\ interval[c]
    /\ c \notin fired
    /\ LET sim == getTrafficStatus(simulation, DENSITIES, hour, random)
           data == SimStatus(sim, DENSITIES)
       IN  /\ simulation' = sim
           /\ trafficData' = data
           /\ sent' = [NoSent EXCEPT ![c] = TickFrames(data)]
    /\ stepsThisSecond' = stepsThisSecond + 1
    /\ fired' = fired \cup {c}
    /\ response' = NoResponse
    /\ lastEvent' = Event("tick", c, 0)
    /\ ConnsUnchanged /\ Uncounted
    /\ UNCHANGED <<DENSITIES, hour, random, users, messages, interval, nextUserId, clock>>

NextSecond ==
    /\ Counted
    /\ \A c \in Conns : interval[c] => c \in fired
    /\ clock' = clock + 1
    /\ fired' = {}
    /\ stepsThisSecond' = 0
    /\ sent' = NoSent
    /\ response' = NoResponse
    /\ lastEvent' = Event("second", 0, 0)
    /\ ConnsUnchanged
    /\ UNCHANGED <<simulation, DENSITIES, hour, random, trafficData, users, messages,
                   interval, nextUserId>>

(***************************************************************************)
(* REST endpoints.                                                         *)
(***************************************************************************)
RestFrame ==
    /\ sent' = NoSent
    /\ TimersUnchanged /\ ConnsUnchanged
    /\ UNCHANGED <<hour, random, users, messages, nextUserId>>

\* GET /api/traffic
GetTraffic ==
    /\ RestFrame /\ Uncounted
    /\ response' = [kind |-> "traffic", status |-> 200, body |-> trafficData]
    /\ lastEvent' = Event("getTraffic", 0, 0)
    /\ UNCHANGED <<simulation, DENSITIES, stepsThisSecond, trafficData>>

\* `if (trafficData[direction])`
MaxSpeedAccepts(data, direction) ==
    direction \in DOMAIN data \/ direction \in ObjectPrototypeKeys

\* the held snapshot after trafficData[direction].maxSpeed = maxSpeed; for an
\* inherited name the assignment lands on the inherited object
MaxSpeedWrite(data, direction, maxSpeed) ==
    IF direction \in DOMAIN data
    THEN [data EXCEPT ![direction] = [@ EXCEPT !.maxSpeed = maxSpeed]]
    ELSE data

\* POST /api/traffic/:direction/maxSpeed
PostMaxSpeed(direction, maxSpeed) ==
    /\ RestFrame
    /\ IF MaxSpeedAccepts(trafficData, direction)
       THEN /\ IF direction \in DOMAIN trafficData THEN Counted ELSE Uncounted
            /\ trafficData' = MaxSpeedWrite(trafficData, direction, maxSpeed)
            /\ response' = [kind |-> "maxSpeed", status |-> 200, success |-> TRUE,
                            data |-> IF direction \in DOMAIN trafficData
                                     THEN <<trafficData'[direction]>> ELSE << >>]
       ELSE /\ Uncounted
            /\ UNCHANGED trafficData
            /\ response' = [kind |-> "maxSpeed", status |-> 400, success |-> FALSE,
                            message |-> "Invalid direction"]
    /\ lastEvent' = Event("postMaxSpeed", 0, 0)
    /\ UNCHANGED <<simulation, DENSITIES, stepsThisSecond>>

\* POST /api/density/:direction
PostDensity(direction, density) ==
    /\ RestFrame
    /\ IF setDensityAccepts(DENSITIES, direction)
       THEN LET dens == setDensity(DENSITIES, direction, density)
                sim == getTrafficStatus(simulation, dens, hour, random)
            IN  /\ Counted
                /\ DENSITIES' = dens
                /\ simulation' = sim
                /\ stepsThisSecond' = stepsThisSecond + 1
                /\ trafficData' = SimStatus(sim, dens)
                /\ response' = [kind |-> "density", status |-> 200, success |-> TRUE,
                                direction |-> direction, density |-> density]
       ELSE /\ Uncounted
            /\ UNCHANGED <<DENSITIES, simulation, stepsThisSecond, trafficData>>
            /\ response' = [kind |-> "density", status |-> 400, success |-> FALSE,
                            message |-> "Invalid direction"]
    /\ lastEvent' = Event("postDensity", 0, 0)

DirectionOrder == <<"North", "South", "East", "West">>

\* the suggestions the assistant derives from a snapshot, direction by direction
Suggestions(status) ==
    LET of(d) ==
          LET info == status[d]
              load == IF info.density >= 40 \/ info.volumes.total >= 70
                      THEN <<[direction |-> d, advice |-> "high density"]>>
                      ELSE IF info.density >= 25
                      THEN <<[direction |-> d, advice |-> "moderate density"]>>
                      ELSE << >>
              lead == IF info.firstGroup.hasReached /\ ~info.secondGroup.hasReached
                      THEN <<[direction |-> d, advice |-> "first group has reached"]>>
                      ELSE << >>
          IN  load \o lead
    IN  of(DirectionOrder[1]) \o of(DirectionOrder[2]) \o of(DirectionOrder[3])
          \o of(DirectionOrder[4])

\* the simulation after the assistant has read its status
AssistantSimulation(sim, densities, currentHour, variation) ==
    getTrafficStatus(sim, densities, currentHour, variation)

\* POST /api/assistant
PostAssistant(prompt) ==
    /\ RestFrame /\ Counted
    /\ LET sim == AssistantSimulation(simulation, DENSITIES, hour, random)
           status == SimStatus(sim, DENSITIES)
       IN  /\ simulation' = sim
           /\ stepsThisSecond' = stepsThisSecond + 1
           /\ response' = [kind |-> "assistant", status |-> 200,
                           template |-> IF prompt = "" THEN "summary" ELSE "volume",
                           suggestions |-> Suggestions(status),
                           statusSnapshot |-> status]
    /\ lastEvent' = Event("postAssistant", 0, 0)
    /\ UNCHANGED <<DENSITIES, trafficData>>

Next ==
    \/ \E c \in Conns : Connection(c)
    \/ \E c \in Conns : WsUnparsable(c)
    \/ \E c \in Conns : WsUnknownType(c)
    \/ \E c \in Conns : WsConnect(c, NameOf(c))
    \/ \E c \in Conns, u \in UserIdInputs(nextUserId), x \in Contents, t \in MessageTypes :
          WsMessage(c, u, x, t)
    \/ \E c \in Conns, u \in UserIdInputs(nextUserId) : WsEmergency(c, u)
    \/ \E c \in Conns, u \in UserIdInputs(nextUserId), l \in LocationInputs : WsLocation(c, u, l)
    \/ \E c \in Conns : Close(c)
    \/ \E c \in Conns : Error(c)
    \/ \E c \in Conns : Tick(c)
    \/ NextSecond
    \/ GetTraffic
    \/ \E d \in DirectionInputs, m \in MaxSpeedInputs : PostMaxSpeed(d, m)
    \/ \E d \in DirectionInputs, v \in DensityInputs : PostDensity(d, v)
    \/ \E p \in PromptInputs : PostAssistant(p)

Spec == Init /\ [][Next]_vars

\* The timer of c is due: the only step of Next that adds c to `fired` is
\* Tick(c), so a TimerDue(c) step is a Tick(c) step and TimerDue(c) is
\* enabled exactly when Tick(c) is.
TimerDue(c) == interval[c] /\ c \notin fired /\ fired' = fired \cup {c}

\* setInterval keeps calling back an armed timer
FairSpec == Spec /\ \A c \in Conns : WF_fired(TimerDue(c))

(***************************************************************************)
(* The simulation on its own: speedPrediction.js driven through its        *)
(* exports getTrafficStatus and setDensity, at any hour of day and with a  *)
(* fresh random variation at every update.                                 *)
(***************************************************************************)
\* moment().hour(): the first and last hour of every period of getTimeFactor
SimHours == {5, 6, 9, 10, 16, 18, 22}
\* Math.random() * 10 - 5
SimVariations == {-5, -1, 2, 4}
\* densities given to setDensity; at 80 vehicles per km the halved base speed
\* of a second group lies below 5 km/h
SimDensityInputs == DensityInputs \cup {JsonNum(80)}
\* directions given to setDensity
SimDirectionInputs == {"North", "East"} \cup ObjectPrototypeKeys \cup {"Up"}

SimInit ==
    /\ DENSITIES = DEFAULT_DENSITIES
    /\ \E p \in StartProgress, h \in SimHours, v \in SimVariations :
          /\ hour = h
          /\ random = VariationProfile(v)
          /\ simulation = getTrafficStatus(StartSimulation(p), DENSITIES, hour, random)
    /\ trafficData = SimStatus(simulation, DENSITIES)
    /\ users = << >>
    /\ messages = << >>
    /\ connState = [c \in Conns |-> "none"]
    /\ assignedId = [c \in Conns |-> 0]
    /\ interval = [c \in Conns |-> FALSE]
    /\ nextUserId = 1
    /\ events = 0
    /\ clock = 0
    /\ fired = {}
    /\ stepsThisSecond = 0
    /\ sent = NoSent
    /\ response = NoResponse
    /\ lastEvent = Event("init", 0, 0)

\* what the simulation's exports leave alone
ServerUnchanged ==
    UNCHANGED <<hour, users, messages, connState, assignedId, interval, nextUserId,
                clock, fired, stepsThisSecond, sent, response>>

\* getTrafficStatus(), its updateSpeed calls drawing the variation v
SimGetTrafficStatus(v) ==
    /\ Counted
    /\ random' = VariationProfile(v)
    /\ simulation' = getTrafficStatus(simulation, DENSITIES, hour, random')
    /\ trafficData' = SimStatus(simulation', DENSITIES)
    /\ lastEvent' = Event("getTrafficStatus", 0, 0)
    /\ UNCHANGED DENSITIES
    /\ ServerUnchanged

\* setDensity(direction, densityValue)
SimSetDensity(direction, densityValue) ==
    /\ Counted
    /\ DENSITIES' = setDensity(DENSITIES, direction, densityValue)
    /\ lastEvent' = Event("setDensity", 0, 0)
    /\ UNCHANGED <<simulation, trafficData, random>>
    /\ ServerUnchanged

SimNext ==
    \/ \E v \in SimVariations : SimGetTrafficStatus(v)
    \/ \E d \in SimDirectionInputs, x \in SimDensityInputs : SimSetDensity(d, x)

SimSpec == SimInit /\ [][SimNext]_vars

(***************************************************************************)
(* Properties.                                                             *)
(***************************************************************************)
\* does connection c hold a frame of this type among those the last step
\* delivered to it
Got(c, type) == \E i \in 1 .. Len(Delivered(c)) : Delivered(c)[i].type = type

\* the last step was an accepted event of this type: its userId is registered
\* (none of these handlers changes the registry)
Accepted(type) == lastEvent.type = type /\ lastEvent.userId \in DOMAIN users

LastMessage == messages[Len(messages)]

\* C1: the simulation advances one fixed step per one-second tick, whatever
\* the number of open connections and whatever events and requests are
\* served: within one second no more than one update step is made.
C1_OneStepPerSecond == stepsThisSecond <= 1

\* C2 (as claimed): an accepted chat message is sent as newMessage to every
\* connection open at that moment, registered or not.
C2_MessageToEveryOpenConnection ==
    Accepted("message") =>
        \A c \in Conns : connState[c] = "open" =>
            \E i \in 1 .. Len(Delivered(c)) :
                Delivered(c)[i] = [type |-> "newMessage", message |-> LastMessage]

\* C2 (amended): an accepted chat message is sent as newMessage to every open
\* connection that has sent a connect event, and to no open connection that
\* has not.
C2_MessageToEveryRegisteredConnection ==
    Accepted("message") =>
        \A c \in Conns : connState[c] = "open" =>
            IF assignedId[c] # 0
            THEN \E i \in 1 .. Len(Delivered(c)) :
                    Delivered(c)[i] = [type |-> "newMessage", message |-> LastMessage]
            ELSE Delivered(c) = << >>

C2_Witness ==
    /\ Accepted("message")
    /\ \E c \in Conns : connState[c] = "open" /\ assignedId[c] # 0 /\ Got(c, "newMessage")
    /\ \E c \in Conns : connState[c] = "open" /\ assignedId[c] = 0

\* the emergency frame of the last step
EmergencyFrame ==
    [type |-> "emergency", message |-> LastMessage, trafficData |-> trafficData]

\* C3 (as claimed): an accepted emergency event sends the alert and the
\* traffic data to every connection open at that moment, and appends the
\* alert to the history with type "emergency".
C3_EmergencyToEveryOpenConnection ==
    Accepted("emergency") =>
        /\ LastMessage.type = "emergency"
        /\ LastMessage.userId = lastEvent.userId
        /\ \A c \in Conns : connState[c] = "open" =>
              \E i \in 1 .. Len(Delivered(c)) : Delivered(c)[i] = EmergencyFrame

\* C3 (amended): an accepted emergency event sends the alert and the traffic
\* data to every open connection that has sent a connect event, and to no
\* open connection that has not, and appends the alert to the history with
\* type "emergency".
C3_EmergencyToEveryRegisteredConnection ==
    Accepted("emergency") =>
        /\ LastMessage.type = "emergency"
        /\ LastMessage.userId = lastEvent.userId
        /\ \A c \in Conns : connState[c] = "open" =>
              IF assignedId[c] # 0
              THEN \E i \in 1 .. Len(Delivered(c)) : Delivered(c)[i] = EmergencyFrame
              ELSE Delivered(c) = << >>

C3_Witness ==
    /\ Accepted("emergency")
    /\ \E c \in Conns : connState[c] = "open" /\ assignedId[c] # 0 /\ Got(c, "emergency")
    /\ \E c \in Conns : connState[c] = "open" /\ assignedId[c] = 0

\* the last step was the timer of c delivering the fresh snapshot to c
TickDelivered(c) ==
    /\ lastEvent = Event("tick", c, 0)
    /\ Delivered(c) = <<[type |-> "trafficUpdate", data |-> trafficData]>>

\* C4: an open connection, registered or not, whose timer is due in the
\* current second is sent a trafficUpdate by it, unless it stops being open
\* first.
C4_OpenConnectionKeepsReceiving ==
    \A c \in Conns :
        [](connState[c] = "open" /\ c \notin fired
              => <>(connState[c] # "open" \/ TickDelivered(c)))

C4_Witness ==
    \E c \in Conns : /\ connState[c] = "open" /\ assignedId[c] = 0
                     /\ clock > 0 /\ TickDelivered(c)

\* C5: every registry entry belongs to a currently open connection, and no
\* two entries belong to the same connection.
C5_OneEntryPerOpenConnection ==
    /\ \A id \in DOMAIN users : connState[users[id].ws] = "open"
    /\ \A id1, id2 \in DOMAIN users : users[id1].ws = users[id2].ws => id1 = id2

\* C6: only connect, close and location events change the registry: every
\* other step leaves its entries, their names and their locations as they were.
C6_RegistryFrame ==
    [][lastEvent'.type \notin {"connect", "close", "location"} => users' = users]_vars

C6_Witness ==
    /\ Accepted("message")
    /\ users[lastEvent.userId].location.known

\* C7: once a maxSpeed write has put m into a direction, the held snapshot
\* (what GET /api/traffic returns and the next trafficUpdate carries) keeps
\* reporting m for it until another maxSpeed write.
C7_MaxSpeedSticks ==
    [][\A d \in Directions, m \in MaxSpeedInputs :
          trafficData[d].maxSpeed = m /\ lastEvent'.type # "postMaxSpeed"
             => trafficData'[d].maxSpeed = m]_vars

\* max(0, v), and 0 when v is not a number (neither a number nor a string
\* spelling one)
ClampedDensity(v) == IF v.numeric /\ v.val > 0 THEN v.val ELSE 0

\* C8: a successful density write of v for one of the four directions makes
\* the held snapshot report max(0, v) (0 when v is not a number) for it, with
\* the volumes recomputed from it; the densities and volumes of the other
\* directions stay as they were, and so do those of every direction under
\* every other step, in the held snapshot and in the one given to the
\* assistant.
C8_DensityWrite ==
    [][\A d \in Directions :
          IF /\ lastEvent'.type = "postDensity" /\ response'.status = 200
             /\ response'.direction = d
          THEN /\ trafficData'[d].density = ClampedDensity(response'.density)
               /\ trafficData'[d].volumes =
                     VolumesOf(d :> ClampedDensity(response'.density), d)
               /\ trafficData'[d].firstGroup.volume = trafficData'[d].volumes.first
               /\ trafficData'[d].secondGroup.volume = trafficData'[d].volumes.second
          ELSE /\ trafficData'[d].density = trafficData[d].density
               /\ trafficData'[d].volumes = trafficData[d].volumes
               /\ response'.kind = "assistant" =>
                     /\ response'.statusSnapshot[d].density = trafficData[d].density
                     /\ response'.statusSnapshot[d].volumes = trafficData[d].volumes
      ]_vars

C8_Witness ==
    /\ lastEvent.type = "tick"
    /\ trafficData["North"].density = 40
    /\ trafficData["North"].volumes = [total |-> 60, first |-> 36, second |-> 24]
    /\ trafficData["East"].density = 15

\* the dynamic state of the simulation's groups
Motion(sim) ==
    [d \in Directions |->
        <<sim.firstGroups[d].distanceTraveled, sim.firstGroups[d].timeElapsed,
          sim.firstGroups[d].speed, sim.firstGroups[d].hasReached,
          sim.secondGroups[d].distanceTraveled, sim.secondGroups[d].timeElapsed,
          sim.secondGroups[d].speed, sim.secondGroups[d].hasReached>>]

\* C9: the statusSnapshot of an assistant reply is the snapshot the server
\* holds, and serving the request leaves the groups' distanceTraveled,
\* timeElapsed, speed and hasReached as they were.
C9_AssistantReadsHeldSnapshot ==
    [][lastEvent'.type = "postAssistant" =>
          /\ response'.statusSnapshot = trafficData'
          /\ Motion(simulation') = Motion(simulation)]_vars

\* C10: no timer callback runs for a connection that has closed.
C10_NoTickAfterClose ==
    lastEvent.type = "tick" => connState[lastEvent.conn] # "closed"

\* C11: a message, emergency or location event whose userId is not in the
\* registry has no effect: the history, the registry, the simulation and the
\* held snapshot stay as they were and no frame is sent to any connection.
C11_UnknownSenderDropped ==
    [][(/\ lastEvent'.type \in {"message", "emergency", "location"}
        /\ lastEvent'.userId \notin DOMAIN users) =>
          /\ messages' = messages
          /\ users' = users
          /\ simulation' = simulation
          /\ DENSITIES' = DENSITIES
          /\ trafficData' = trafficData
          /\ \A c \in Conns : sent'[c] = << >>]_vars

\* an emergency event with an unknown userId has just been dropped while a
\* registered connection was open
C11_Witness ==
    /\ lastEvent.type = "emergency"
    /\ lastEvent.userId \notin DOMAIN users
    /\ \E c \in Conns : connState[c] = "open" /\ assignedId[c] \in DOMAIN users
    /\ \A c \in Conns : sent[c] = << >>

\* the last n entries of a sequence, in their order
LastEntries(n, seq) ==
    LET k == IF Len(seq) < n THEN Len(seq) ELSE n
    IN  [i \in 1 .. k |-> seq[Len(seq) - k + i]]

\* the history only grows, by exactly one entry at its end for every accepted
\* chat or emergency event, which is that event's message
HistoryGrows ==
    IF /\ lastEvent'.type \in {"message", "emergency"}
       /\ lastEvent'.userId \in DOMAIN users
    THEN /\ Len(messages') = Len(messages) + 1
         /\ SubSeq(messages', 1, Len(messages)) = messages
         /\ messages'[Len(messages')].userId = lastEvent'.userId
         /\ messages'[Len(messages')].id \notin {messages[i].id : i \in 1 .. Len(messages)}
         /\ lastEvent'.type = "emergency" => messages'[Len(messages')].type = "emergency"
    ELSE messages' = messages

\* C12: the history holds every accepted chat and emergency message once, in
\* the order of acceptance, and is never reordered or truncated; the
\* connected confirmation of a connect event carries its last 50 entries
\* (all of them when there are fewer), in that order.
C12_ConnectedCarriesRecentHistory ==
    [][/\ HistoryGrows
       /\ lastEvent'.type = "connect" =>
             /\ sent'[lastEvent'.conn] # << >>
             /\ sent'[lastEvent'.conn][1] =
                   [type |-> "connected", userId |-> lastEvent'.userId,
                    messages |-> LastEntries(50, messages')]]_vars

\* a connect event has been confirmed with 50 entries of a longer history,
\* the last of them pushed in this run
C12_Witness ==
    /\ lastEvent.type = "connect"
    /\ Len(messages) > 50
    /\ messages[Len(messages)].userId > 0
    /\ Len(Delivered(lastEvent.conn)) > 0
    /\ Delivered(lastEvent.conn)[1].type = "connected"
    /\ Len(Delivered(lastEvent.conn)[1].messages) = 50
    /\ Delivered(lastEvent.conn)[1].messages[50] = messages[Len(messages)]

\* C13: a density or maxSpeed POST is accepted (200) only for one of the four
\* directions; for any other direction it is answered 400 "Invalid direction"
\* and leaves the densities, the simulation (volumes included) and the held
\* snapshot as they were.
C13_InvalidDirectionRejected ==
    [][lastEvent'.type \in {"postDensity", "postMaxSpeed"} =>
          IF response'.status = 200
          THEN /\ response'.kind = "density" => response'.direction \in Directions
               /\ response'.kind = "maxSpeed" => response'.data # << >>
          ELSE /\ response'.status = 400
               /\ response'.message = "Invalid direction"
               /\ DENSITIES' = DENSITIES
               /\ simulation' = simulation
               /\ trafficData' = trafficData]_vars

\* C14: the traffic data sent with an accepted emergency alert reports
\* currentSpeed 0 for every vehicle group that has not reached.
C14_EmergencyStopsTraffic ==
    Accepted("emergency") =>
        \A c \in Conns : \A i \in 1 .. Len(Delivered(c)) :
            Delivered(c)[i].type = "emergency" =>
                \A d \in Directions :
                    LET info == Delivered(c)[i].trafficData[d]
                    IN  /\ ~info.firstGroup.hasReached => info.firstGroup.currentSpeed = 0
                        /\ ~info.secondGroup.hasReached => info.secondGroup.currentSpeed = 0

\* the vehicle groups of a simulation
GroupsOf(sim) ==
    {sim.firstGroups[d] : d \in Directions} \cup {sim.secondGroups[d] : d \in Directions}

\* C15: the speed of every vehicle group is an integer from 0 to the group's
\* maxSpeed, for every density set through setDensity, every hour of day and
\* every random variation, the doubling of a second group that has reached
\* included.
C15_SpeedWithinLimits ==
    \A g \in GroupsOf(simulation) : g.speed \in 0 .. g.maxSpeed

\* after an update: a second group that had reached before it (its speed was
\* doubled), a group slowed down to 0 and a group held at its maxSpeed
C15_Witness ==
    /\ lastEvent.type = "getTrafficStatus"
    /\ \E d \in Directions :
          /\ simulation.secondGroups[d].hasReached
          /\ simulation.secondGroups[d].speed > 0
          /\ simulation.secondGroups[d].distanceTraveled
                - simulation.secondGroups[d].speed >= DISTANCE_TO_TRAVEL
    /\ \E g \in GroupsOf(simulation) : g.speed = 0
    /\ \E g \in GroupsOf(simulation) : g.speed = g.maxSpeed

\* a group has reached exactly when its distance is at least 1.5 km
ReachedAtDistance(g) == g.hasReached <=> g.distanceTraveled >= DISTANCE_TO_TRAVEL

\* C16: for every vehicle group hasReached is true exactly when
\* distanceTraveled has reached 1.5 km, and no step makes a group's
\* distanceTraveled smaller or turns its hasReached from true to false.
C16_ReachedIsMonotone ==
    /\ [](\A g \in GroupsOf(simulation) : ReachedAtDistance(g))
    /\ [][\A d \in Directions :
            /\ simulation'.firstGroups[d].distanceTraveled
                  >= simulation.firstGroups[d].distanceTraveled
            /\ simulation'.secondGroups[d].distanceTraveled
                  >= simulation.secondGroups[d].distanceTraveled
            /\ simulation.firstGroups[d].hasReached => simulation'.firstGroups[d].hasReached
            /\ simulation.secondGroups[d].hasReached => simulation'.secondGroups[d].hasReached
         ]_vars

\* after an update: a first group that reached 1.5 km by an update and
\* stays there, a second group that had reached before this update and has
\* moved on, and a group still on its way
C16_Witness ==
    /\ lastEvent.type = "getTrafficStatus"
    /\ events >= 2
    /\ \E d \in Directions :
          /\ simulation.firstGroups[d].hasReached
          /\ simulation.firstGroups[d].distanceTraveled - simulation.firstGroups[d].speed
                < DISTANCE_TO_TRAVEL
    /\ \E d \in Directions :
          /\ simulation.secondGroups[d].hasReached
          /\ simulation.secondGroups[d].speed > 0
          /\ simulation.secondGroups[d].distanceTraveled
                - simulation.secondGroups[d].speed >= DISTANCE_TO_TRAVEL
    /\ \E g \in GroupsOf(simulation) : ~g.hasReached

====
